---- MODULE Spec2Model ----
(***************************************************************************)
(* State-machine model of the breezy_rgb_lcd display component:            *)
(* the screen-mode state machine and framebuffer manager (rgb_display.c),  *)
(* the vsync gate (rgb_display.c) and the clipped drawing primitives       *)
(* (rgb_gfx.c).                                                            *)
(***************************************************************************)
EXTENDS Integers, Sequences, FiniteSets, TLC

\* ------------------------------------------------------------------------
\* Program constants
\* ------------------------------------------------------------------------
NULL == 0

SM_TEXT == 3
SM_VGA13H == 19
SM_150P == 128

GFX_VGA_WIDTH == 320
GFX_VGA_HEIGHT == 200
GFX_VGA_SIZE == GFX_VGA_WIDTH * GFX_VGA_HEIGHT
GFX_VGA_SCALE == 3
GFX_VGA_MARGIN_X == 32

GFX_150P_WIDTH == 256
GFX_150P_HEIGHT == 150
GFX_150P_SIZE == GFX_150P_WIDTH * GFX_150P_HEIGHT
GFX_150P_SCALE == 4

\* The two pools heap_caps_malloc can serve the framebuffer from; a non-null
\* framebuffer pointer is identified by the pool its block lives in.
MALLOC_CAP_INTERNAL == 1
MALLOC_CAP_SPIRAM == 2

\* ------------------------------------------------------------------------
\* Bounds of the model
\* ------------------------------------------------------------------------
\* number of distinct non-null text-cell buffers the console can hand out
NumTextBufs == 2
\* a mode value that is none of the three enumerators
BadMode == 7
\* drawing calls modelled per allocated framebuffer
MaxDraws == 1
\* top-of-frame refills modelled
MaxFrames == 1

GraphicsModes == {SM_VGA13H, SM_150P}
TextBufs == 1..NumTextBufs
CursorInputs == {<<-1, -1>>, <<5, 3>>}
PaletteIndexInputs == {-1, 5, 256}
PaletteColorInputs == {4660}

VARIABLES
    s_screen_mode,          \* screen_mode_t
    s_graphics_framebuffer, \* NULL or the pool holding the live block
    fb_size,                \* size in bytes of the live block, 0 when there is none
    fb_pix,                 \* contents of the live block: offset -> nonzero byte (absent = 0)
    s_gfx_width,
    s_gfx_height,
    s_gfx_scale,
    s_gfx_margin_x,
    s_display_buffer,       \* NULL or a text buffer
    s_callbacks,            \* the installed callback table
    s_cursor_col,
    s_cursor_row,
    s_vga_palette,          \* [0..255 -> RGB565]
    s_vsync_sem,            \* TRUE iff xSemaphoreCreateBinary returned a handle
    sem_given,              \* TRUE iff the binary semaphore is available
    s_waiting_for_vsync,
    wait_pc,                \* "idle" or "blocked" (inside xSemaphoreTake)
    vsync_since_call,       \* an on_vsync ran since the latest wait_vsync call began
    n_draws,                \* drawing calls made since the block was obtained
    gfx_written,            \* framebuffer offsets written by the latest primitive
    gfx_oob,                \* the latest primitive wrote outside the framebuffer block
    last_call,              \* the latest call: [op, arg, ret, log]
    s_frame_count,          \* uint32_t
    n_frames,               \* top-of-frame refills modelled
    bounce_pos,             \* pos_px of the latest refill, -1 before the first
    bounce,                 \* bounce buffer after the latest refill: pixel -> nonzero RGB565
    bounce_oob,             \* the latest refill wrote outside the bounce buffer
    isr_fault,              \* the latest refill read outside a live framebuffer block
    cursor_cells,           \* <<line, col>> of the cells the latest refill overwrote with the cursor
    isr_pc,                 \* the foreground statement the latest refill ran in front of
    sm_pc,                  \* statement of rgb_display_set_mode the foreground is at
    sm_arg,                 \* argument of the rgb_display_set_mode call in progress
    fb_freed                \* the block s_graphics_framebuffer points to was given to heap_caps_free

vars == <<s_screen_mode, s_graphics_framebuffer, fb_size, fb_pix, s_gfx_width,
          s_gfx_height, s_gfx_scale, s_gfx_margin_x, s_display_buffer,
          s_callbacks, s_cursor_col, s_cursor_row, s_vga_palette,
          s_vsync_sem, sem_given, s_waiting_for_vsync, wait_pc,
          vsync_since_call, n_draws, gfx_written, gfx_oob, last_call,
          s_frame_count, n_frames, bounce_pos, bounce, bounce_oob, isr_fault,
          cursor_cells, isr_pc, sm_pc, sm_arg, fb_freed>>

modeVars == <<s_screen_mode, s_graphics_framebuffer, fb_size, fb_pix, s_gfx_width,
              s_gfx_height, s_gfx_scale, s_gfx_margin_x, s_display_buffer>>
vsyncVars == <<sem_given, s_waiting_for_vsync, wait_pc, vsync_since_call>>
gfxVars == <<n_draws, gfx_written, gfx_oob>>
refillVars == <<s_frame_count, n_frames, bounce_pos, bounce, bounce_oob,
                isr_fault, cursor_cells, isr_pc>>
stepVars == <<sm_pc, sm_arg, fb_freed>>
isrVars == <<refillVars, stepVars>>

\* ------------------------------------------------------------------------
\* Callback table (rgb_display_callbacks_t); every pointer may be NULL.
\* table = FALSE models s_callbacks == NULL.
\* ------------------------------------------------------------------------
rgb_display_callbacks_t ==
    [table : {TRUE}, enter_graphics : BOOLEAN, exit_graphics : BOOLEAN,
     get_text_buffer : BOOLEAN, flush_input : BOOLEAN]

NoCallbacks ==
    [table |-> FALSE, enter_graphics |-> FALSE, exit_graphics |-> FALSE,
     get_text_buffer |-> FALSE, flush_input |-> FALSE]

\* s_callbacks && s_callbacks->hook
HasHook(cb, hook) == cb.table /\ cb[hook]

\* ------------------------------------------------------------------------
\* Indexed palette
\* ------------------------------------------------------------------------
s_cga_colors ==
    <<0, 21, 1344, 1365, 43008, 43029, 42272, 44373,
      21162, 21183, 22506, 22527, 64170, 64191, 65504, 65535>>

init_vga_palette ==
    [idx \in 0..255 |->
        IF idx < 16 THEN s_cga_colors[idx + 1]
        ELSE IF idx < 232 THEN
            LET c  == idx - 16
                r  == c \div 36
                g  == (c \div 6) % 6
                b  == c % 6
                r5 == (r * 51 * 31) \div 255
                g6 == (g * 51 * 63) \div 255
                b5 == (b * 51 * 31) \div 255
            IN  (r5 * 2048 + g6 * 32 + b5) % 65536
        ELSE
            LET i    == idx - 232
                gray == 8 + i * 10
                g5   == (gray * 31) \div 255
                g6   == (gray * 63) \div 255
            IN  (g5 * 2048 + g6 * 32 + g5) % 65536]

\* ------------------------------------------------------------------------
\* Framebuffer manager.  d is the record of the display fields
\* [mode, fb, size, pix, w, h, scale, margin, buf]; results carry the call log.
\* ------------------------------------------------------------------------
EmptyPix == [o \in {} |-> 0]

Display ==
    [mode |-> s_screen_mode, fb |-> s_graphics_framebuffer,
     size |-> fb_size, pix |-> fb_pix,
     w |-> s_gfx_width, h |-> s_gfx_height, scale |-> s_gfx_scale,
     margin |-> s_gfx_margin_x, buf |-> s_display_buffer]

\* heap_caps_malloc(fb_size, INTERNAL), then the CONFIG_SPIRAM fallback; a
\* build without CONFIG_SPIRAM behaves as spiram_ok = FALSE.
heap_caps_malloc(internal_ok, spiram_ok) ==
    IF internal_ok THEN MALLOC_CAP_INTERNAL
    ELSE IF spiram_ok THEN MALLOC_CAP_SPIRAM
    ELSE NULL

allocate_graphics_framebuffer(d, mode, internal_ok, spiram_ok) ==
    IF d.fb # NULL THEN [d |-> d, ret |-> 0, log |-> <<>>]
    ELSE IF mode \notin GraphicsModes THEN [d |-> d, ret |-> -1, log |-> <<>>]
    ELSE
        LET d1 == IF mode = SM_VGA13H
                  THEN [d EXCEPT !.w = GFX_VGA_WIDTH, !.h = GFX_VGA_HEIGHT,
                                 !.scale = GFX_VGA_SCALE,
                                 !.margin = GFX_VGA_MARGIN_X]
                  ELSE [d EXCEPT !.w = GFX_150P_WIDTH, !.h = GFX_150P_HEIGHT,
                                 !.scale = GFX_150P_SCALE, !.margin = 0]
            fb_sz == IF mode = SM_VGA13H THEN GFX_VGA_SIZE ELSE GFX_150P_SIZE
            p  == heap_caps_malloc(internal_ok, spiram_ok)
        IN  IF p = NULL
            THEN [d |-> d1, ret |-> -1, log |-> <<"malloc_fail">>]
            ELSE [d |-> [d1 EXCEPT !.fb = p, !.size = fb_sz, !.pix = EmptyPix],
                  ret |-> 0, log |-> <<"malloc">>]

\* a slip of the free helper: the block is released, the pointer kept
free_keeps_pointer(d) ==
    IF d.fb # NULL
    THEN [d |-> [d EXCEPT !.size = 0, !.pix = EmptyPix], log |-> <<"free">>]
    ELSE [d |-> d, log |-> <<>>]

free_graphics_framebuffer(d) ==
    IF d.fb # NULL
    THEN [d |-> [d EXCEPT !.fb = NULL, !.size = 0, !.pix = EmptyPix],
          log |-> <<"free">>]
    ELSE [d |-> d, log |-> <<>>]

\* ------------------------------------------------------------------------
\* Mode state machine: rgb_display_set_mode
\* ------------------------------------------------------------------------
LogSet(log) == {log[i] : i \in 1..Len(log)}

\* a slip of the hook call: the hook's verdict is ignored
enter_hook_verdict_ignored(cb, enter_ret) ==
    IF HasHook(cb, "enter_graphics")
    THEN [abort |-> FALSE,
          log |-> IF enter_ret # 0 THEN <<"enter_graphics_rejected">>
                  ELSE <<"enter_graphics">>]
    ELSE [abort |-> FALSE, log |-> <<>>]

\* if (s_callbacks && s_callbacks->enter_graphics)
\*     if (s_callbacks->enter_graphics() != 0) return -1;
enter_graphics_hook(cb, enter_ret) ==
    IF HasHook(cb, "enter_graphics")
    THEN [abort |-> enter_ret # 0,
          log |-> IF enter_ret # 0 THEN <<"enter_graphics_rejected">>
                  ELSE <<"enter_graphics">>]
    ELSE [abort |-> FALSE, log |-> <<>>]

\* a slip of the rollback: the collaborator is not told to unwind
rollback_without_exit(d, cb) ==
    [d |-> d, ret |-> -1, log |-> <<>>]

\* the rollback after a failed allocation
rollback(d, cb) ==
    [d |-> d, ret |-> -1,
     log |-> IF HasHook(cb, "exit_graphics") THEN <<"exit_graphics">> ELSE <<>>]

\* a slip of the commit: the text buffer stays linked
commit_keeps_text_buffer(d, mode) ==
    [d EXCEPT !.mode = mode]

\* s_screen_mode = mode; s_display_buffer = NULL;
commit_graphics(d, mode) ==
    [d EXCEPT !.mode = mode, !.buf = NULL]

\* the branch taken for mode == SM_VGA13H || mode == SM_150P
set_mode_graphics(d, cb, mode, enter_ret, internal_ok, spiram_ok) ==
    LET e == enter_graphics_hook(cb, enter_ret)
    IN  IF e.abort
        THEN [d |-> d, ret |-> -1, log |-> e.log]
        ELSE
            LET a == allocate_graphics_framebuffer(d, mode, internal_ok, spiram_ok)
                r == rollback(a.d, cb)
            IN  IF a.ret # 0
                THEN [d |-> r.d, ret |-> r.ret, log |-> e.log \o a.log \o r.log]
                ELSE [d |-> commit_graphics(a.d, mode), ret |-> 0,
                      log |-> e.log \o a.log]

\* a slip of the text branch: the input is flushed before the console is
\* restored
set_mode_text_flushes_first(d, cb, text_buf) ==
    LET f  == free_graphics_framebuffer([d EXCEPT !.mode = SM_TEXT])
        d2 == IF HasHook(cb, "get_text_buffer")
              THEN [f.d EXCEPT !.buf = text_buf] ELSE f.d
    IN  [d |-> d2, ret |-> 0,
         log |-> f.log
                 \o (IF HasHook(cb, "flush_input") THEN <<"flush_input">> ELSE <<>>)
                 \o (IF HasHook(cb, "exit_graphics") THEN <<"exit_graphics">> ELSE <<>>)
                 \o (IF HasHook(cb, "get_text_buffer") THEN <<"get_text_buffer">> ELSE <<>>)]

\* the branch taken for mode == SM_TEXT
set_mode_text(d, cb, text_buf) ==
    LET f  == free_graphics_framebuffer([d EXCEPT !.mode = SM_TEXT])
        d2 == IF HasHook(cb, "get_text_buffer")
              THEN [f.d EXCEPT !.buf = text_buf] ELSE f.d
    IN  [d |-> d2, ret |-> 0,
         log |-> f.log
                 \o (IF HasHook(cb, "exit_graphics") THEN <<"exit_graphics">> ELSE <<>>)
                 \o (IF HasHook(cb, "get_text_buffer") THEN <<"get_text_buffer">> ELSE <<>>)
                 \o (IF HasHook(cb, "flush_input") THEN <<"flush_input">> ELSE <<>>)]

\* a slip of the dispatcher: no early return for the current mode
set_mode_no_early_return(d, cb, mode, enter_ret, internal_ok, spiram_ok, text_buf) ==
    IF mode \in GraphicsModes
    THEN set_mode_graphics(d, cb, mode, enter_ret, internal_ok, spiram_ok)
    ELSE IF mode = SM_TEXT THEN set_mode_text(d, cb, text_buf)
    ELSE [d |-> d, ret |-> -1, log |-> <<>>]

set_mode(d, cb, mode, enter_ret, internal_ok, spiram_ok, text_buf) ==
    IF mode = d.mode THEN [d |-> d, ret |-> 0, log |-> <<>>]
    ELSE IF mode \in GraphicsModes
    THEN set_mode_graphics(d, cb, mode, enter_ret, internal_ok, spiram_ok)
    ELSE IF mode = SM_TEXT THEN set_mode_text(d, cb, text_buf)
    ELSE [d |-> d, ret |-> -1, log |-> <<>>]

Idle == wait_pc = "idle" /\ ~gfx_oob /\ sm_pc = "idle"

\* The inputs of one call: the hooks' results and the allocator's outcome are
\* drawn only on the branch that consumes them.
AllocOutcomes == {<<TRUE, FALSE>>, <<FALSE, TRUE>>, <<FALSE, FALSE>>}

SetModeInputs ==
    [mode : GraphicsModes, enter_ret : {0, 1}, alloc : AllocOutcomes, text_buf : {NULL}]
    \cup [mode : {SM_TEXT},  enter_ret : {0}, alloc : {<<TRUE, FALSE>>},
          text_buf : {NULL} \cup TextBufs]
    \cup [mode : {BadMode}, enter_ret : {0}, alloc : {<<TRUE, FALSE>>}, text_buf : {NULL}]

rgb_display_set_mode ==
    /\ Idle
    /\ \E in \in SetModeInputs :
        LET r == set_mode(Display, s_callbacks, in.mode, in.enter_ret,
                          in.alloc[1], in.alloc[2], in.text_buf)
        IN  /\ s_screen_mode' = r.d.mode
            /\ s_graphics_framebuffer' = r.d.fb
            /\ fb_size' = r.d.size
            /\ fb_pix' = r.d.pix
            /\ s_gfx_width' = r.d.w
            /\ s_gfx_height' = r.d.h
            /\ s_gfx_scale' = r.d.scale
            /\ s_gfx_margin_x' = r.d.margin
            /\ s_display_buffer' = r.d.buf
            /\ n_draws' = IF r.d.fb = NULL \/ "malloc" \in LogSet(r.log)
                          THEN 0 ELSE n_draws
            /\ gfx_written' = {}
            /\ last_call' = [op |-> "set_mode", arg |-> <<in.mode>>,
                             ret |-> r.ret, log |-> r.log]
    /\ UNCHANGED <<s_callbacks, s_cursor_col, s_cursor_row, s_vga_palette,
                   s_vsync_sem, gfx_oob>>
    /\ UNCHANGED vsyncVars
    /\ UNCHANGED isrVars

rgb_display_set_buffer ==
    /\ Idle
    /\ \E cells \in {NULL} \cup TextBufs :
        /\ s_display_buffer' = cells
        /\ last_call' = [op |-> "set_buffer", arg |-> <<cells>>,
                         ret |-> 0, log |-> <<>>]
    /\ UNCHANGED <<s_screen_mode, s_graphics_framebuffer, fb_size, fb_pix,
                   s_gfx_width, s_gfx_height, s_gfx_scale, s_gfx_margin_x, s_callbacks,
                   s_cursor_col, s_cursor_row, s_vga_palette, s_vsync_sem>>
    /\ UNCHANGED vsyncVars
    /\ UNCHANGED gfxVars
    /\ UNCHANGED isrVars

rgb_display_set_callbacks ==
    /\ Idle
    /\ \E cb \in rgb_display_callbacks_t \cup {NoCallbacks} :
        /\ s_callbacks' = cb
        /\ last_call' = [op |-> "set_callbacks", arg |-> <<>>,
                         ret |-> 0, log |-> <<>>]
    /\ UNCHANGED modeVars
    /\ UNCHANGED <<s_cursor_col, s_cursor_row, s_vga_palette, s_vsync_sem>>
    /\ UNCHANGED vsyncVars
    /\ UNCHANGED gfxVars
    /\ UNCHANGED isrVars

rgb_display_set_cursor ==
    /\ Idle
    /\ \E pos \in CursorInputs :
        /\ s_cursor_col' = pos[1]
        /\ s_cursor_row' = pos[2]
        /\ last_call' = [op |-> "set_cursor", arg |-> pos,
                         ret |-> 0, log |-> <<>>]
    /\ UNCHANGED modeVars
    /\ UNCHANGED <<s_callbacks, s_vga_palette, s_vsync_sem>>
    /\ UNCHANGED vsyncVars
    /\ UNCHANGED gfxVars
    /\ UNCHANGED isrVars

rgb_display_set_vga_palette_entry ==
    /\ Idle
    /\ \E index \in PaletteIndexInputs, rgb565 \in PaletteColorInputs :
        /\ s_vga_palette' = IF index >= 0 /\ index < 256
                            THEN [s_vga_palette EXCEPT ![index] = rgb565]
                            ELSE s_vga_palette
        /\ last_call' = [op |-> "set_vga_palette_entry",
                         arg |-> <<index, rgb565>>, ret |-> 0, log |-> <<>>]
    /\ UNCHANGED modeVars
    /\ UNCHANGED <<s_callbacks, s_cursor_col, s_cursor_row, s_vsync_sem>>
    /\ UNCHANGED vsyncVars
    /\ UNCHANGED gfxVars
    /\ UNCHANGED isrVars

\* ------------------------------------------------------------------------
\* State after rgb_display_init: the statics keep their initialisers and the
\* palette is built.
\* ------------------------------------------------------------------------
InitDisplay ==
    /\ s_screen_mode = SM_TEXT
    /\ s_graphics_framebuffer = NULL
    /\ fb_size = 0
    /\ fb_pix = EmptyPix
    /\ s_gfx_width = 0
    /\ s_gfx_height = 0
    /\ s_gfx_scale = 0
    /\ s_gfx_margin_x = 0
    /\ s_display_buffer = NULL
    /\ s_callbacks = NoCallbacks
    /\ s_cursor_col = -1
    /\ s_cursor_row = -1
    /\ s_vga_palette = init_vga_palette
    /\ sem_given = FALSE
    /\ s_waiting_for_vsync = FALSE
    /\ wait_pc = "idle"
    /\ vsync_since_call = FALSE
    /\ n_draws = 0
    /\ gfx_written = {}
    /\ gfx_oob = FALSE
    /\ last_call = [op |-> "init", arg |-> <<>>, ret |-> 0, log |-> <<>>]
    /\ n_frames = 0
    /\ bounce_pos = -1
    /\ bounce = EmptyPix
    /\ bounce_oob = FALSE
    /\ isr_fault = FALSE
    /\ cursor_cells = {}
    /\ isr_pc = "none"
    /\ sm_pc = "idle"
    /\ sm_arg = SM_TEXT
    /\ fb_freed = FALSE

\* the state after rgb_display_init followed by rgb_display_set_callbacks(cb)
InitWithCallbacks(cb) ==
    /\ s_screen_mode = SM_TEXT
    /\ s_graphics_framebuffer = NULL
    /\ fb_size = 0
    /\ fb_pix = EmptyPix
    /\ s_gfx_width = 0
    /\ s_gfx_height = 0
    /\ s_gfx_scale = 0
    /\ s_gfx_margin_x = 0
    /\ s_display_buffer = NULL
    /\ s_callbacks = cb
    /\ s_cursor_col = -1
    /\ s_cursor_row = -1
    /\ s_vga_palette = init_vga_palette
    /\ s_vsync_sem = TRUE
    /\ s_frame_count = 0
    /\ sem_given = FALSE
    /\ s_waiting_for_vsync = FALSE
    /\ wait_pc = "idle"
    /\ vsync_since_call = FALSE
    /\ n_draws = 0
    /\ gfx_written = {}
    /\ gfx_oob = FALSE
    /\ last_call = [op |-> "set_callbacks", arg |-> <<>>, ret |-> 0, log |-> <<>>]
    /\ n_frames = 0
    /\ bounce_pos = -1
    /\ bounce = EmptyPix
    /\ bounce_oob = FALSE
    /\ isr_fault = FALSE
    /\ cursor_cells = {}
    /\ isr_pc = "none"
    /\ sm_pc = "idle"
    /\ sm_arg = SM_TEXT
    /\ fb_freed = FALSE

\* xSemaphoreCreateBinary returned a handle
Init == InitDisplay /\ s_vsync_sem = TRUE /\ s_frame_count = 0

Next ==
    \/ rgb_display_set_mode
    \/ rgb_display_set_buffer
    \/ rgb_display_set_callbacks
    \/ rgb_display_set_cursor
    \/ rgb_display_set_vga_palette_entry

Spec == Init /\ [][Next]_vars

\* ------------------------------------------------------------------------
\* VSync gate: rgb_display_wait_vsync blocks in xSemaphoreTake, on_vsync
\* runs in interrupt context at any point.
\* ------------------------------------------------------------------------
\* a slip of the guard: the flag is armed and the caller blocks in any mode
wait_vsync_always_arms ==
    /\ Idle
    /\ s_waiting_for_vsync' = TRUE
    /\ wait_pc' = "blocked"
    /\ vsync_since_call' = FALSE
    /\ last_call' = [op |-> "wait_vsync", arg |-> <<>>, ret |-> 0,
                     log |-> <<"armed">>]
    /\ UNCHANGED modeVars
    /\ UNCHANGED <<s_callbacks, s_cursor_col, s_cursor_row, s_vga_palette,
                   s_vsync_sem, sem_given>>
    /\ UNCHANGED gfxVars
    /\ UNCHANGED isrVars

\* the call up to the point where it blocks (or its early return)
rgb_display_wait_vsync ==
    /\ Idle
    /\ IF s_screen_mode \notin GraphicsModes \/ ~s_vsync_sem
       THEN /\ last_call' = [op |-> "wait_vsync", arg |-> <<>>, ret |-> 0,
                             log |-> <<"not_armed">>]
            /\ UNCHANGED <<s_waiting_for_vsync, wait_pc>>
       ELSE /\ s_waiting_for_vsync' = TRUE
            /\ wait_pc' = "blocked"
            /\ last_call' = [op |-> "wait_vsync", arg |-> <<>>, ret |-> 0,
                             log |-> <<"armed">>]
    /\ vsync_since_call' = FALSE
    /\ UNCHANGED modeVars
    /\ UNCHANGED <<s_callbacks, s_cursor_col, s_cursor_row, s_vga_palette,
                   s_vsync_sem, sem_given>>
    /\ UNCHANGED gfxVars
    /\ UNCHANGED isrVars

\* xSemaphoreTake returns pdTRUE: the semaphore was available
xSemaphoreTake_signalled ==
    /\ wait_pc = "blocked"
    /\ sem_given
    /\ sem_given' = FALSE
    /\ wait_pc' = "idle"
    /\ last_call' = [op |-> "wait_vsync", arg |-> <<>>, ret |-> 0,
                     log |-> <<"signalled">>]
    /\ UNCHANGED modeVars
    /\ UNCHANGED <<s_callbacks, s_cursor_col, s_cursor_row, s_vga_palette,
                   s_vsync_sem, s_waiting_for_vsync, vsync_since_call>>
    /\ UNCHANGED gfxVars
    /\ UNCHANGED isrVars

\* xSemaphoreTake returns pdFALSE: pdMS_TO_TICKS(100) elapsed
xSemaphoreTake_timeout ==
    /\ wait_pc = "blocked"
    /\ ~sem_given
    /\ wait_pc' = "idle"
    /\ last_call' = [op |-> "wait_vsync", arg |-> <<>>, ret |-> 0,
                     log |-> <<"timeout">>]
    /\ UNCHANGED modeVars
    /\ UNCHANGED <<s_callbacks, s_cursor_col, s_cursor_row, s_vga_palette,
                   s_vsync_sem, sem_given, s_waiting_for_vsync,
                   vsync_since_call>>
    /\ UNCHANGED gfxVars
    /\ UNCHANGED isrVars

\* the vertical-blank interrupt
on_vsync ==
    /\ IF s_waiting_for_vsync /\ s_vsync_sem
       THEN /\ sem_given' = TRUE
            /\ s_waiting_for_vsync' = FALSE
       ELSE UNCHANGED <<sem_given, s_waiting_for_vsync>>
    /\ vsync_since_call' = TRUE
    /\ last_call' = [op |-> "on_vsync", arg |-> <<>>, ret |-> 0, log |-> <<>>]
    /\ UNCHANGED modeVars
    /\ UNCHANGED <<s_callbacks, s_cursor_col, s_cursor_row, s_vga_palette,
                   s_vsync_sem, wait_pc>>
    /\ UNCHANGED gfxVars
    /\ UNCHANGED isrVars

\* xSemaphoreCreateBinary returned a handle or NULL
VsyncInit == InitDisplay /\ s_vsync_sem \in BOOLEAN /\ s_frame_count = 0

VsyncNext ==
    \/ rgb_display_set_mode
    \/ rgb_display_wait_vsync
    \/ xSemaphoreTake_signalled
    \/ xSemaphoreTake_timeout
    \/ on_vsync

VsyncSpec == VsyncInit /\ [][VsyncNext]_vars

\* The tick interrupt and the scheduler are live: a blocked xSemaphoreTake
\* is resumed once the semaphore is available or its timeout has elapsed.
\* Nothing guarantees that a vertical blank is ever delivered.
FairVsyncSpec ==
    /\ VsyncSpec
    /\ WF_vars(xSemaphoreTake_signalled)
    /\ WF_vars(xSemaphoreTake_timeout)

\* ------------------------------------------------------------------------
\* C int arithmetic (32-bit, two's complement).  Signed overflow is undefined
\* behaviour; ub selects one of the outcomes a build produces: "wrap" is the
\* wrapped result of the machine instruction, "sat" the result a compiler
\* that assumes no overflow reasons with (the sum is beyond every int).
\* ------------------------------------------------------------------------
INT_MAX == 2147483647
INT_MIN == -INT_MAX - 1
OverflowOutcomes == {"wrap", "sat"}

AddInt(a, b, ub) ==
    IF a > 0 /\ b > 0 /\ a > INT_MAX - b
    THEN IF ub = "wrap" THEN (a - INT_MAX - 1) + (b - INT_MAX - 1) ELSE INT_MAX
    ELSE IF a < 0 /\ b < 0 /\ a < INT_MIN - b
    THEN IF ub = "wrap" THEN (a + INT_MAX + 1) + (b + INT_MAX + 1) ELSE INT_MIN
    ELSE a + b

SubInt(a, b, ub) ==
    IF a >= 0 /\ b < 0 /\ a > INT_MAX + b
    THEN IF ub = "wrap" THEN (a - INT_MAX - 1) - (b + INT_MAX + 1) ELSE INT_MAX
    ELSE IF a < 0 /\ b > 0 /\ a < INT_MIN + b
    THEN IF ub = "wrap" THEN (a + INT_MAX + 1) - (b - INT_MAX - 1) ELSE INT_MIN
    ELSE a - b

\* a * b for b >= 0, by binary expansion of b
RECURSIVE MulInt(_, _, _)
MulInt(a, b, ub) ==
    IF b = 0 THEN 0
    ELSE LET half == MulInt(a, b \div 2, ub)
             dbl  == AddInt(half, half, ub)
         IN  IF b % 2 = 1 THEN AddInt(dbl, a, ub) ELSE dbl

\* ------------------------------------------------------------------------
\* Writes into the framebuffer block.  A write set is [w, oob]: the offsets
\* written inside the block and whether any write fell outside it.
\* ------------------------------------------------------------------------
Min(a, b) == IF a < b THEN a ELSE b

NoWrite == [w |-> {}, oob |-> FALSE]

\* n > 0 byte writes at off, off + stride, ... into a block of size bytes:
\* the run [first, count] of those that land inside the block
Run(off, n, stride, size) ==
    IF off >= size THEN [first |-> 0, count |-> 0, oob |-> TRUE]
    ELSE
        LET m     == -(off + 1)
            i_lo  == IF off >= 0 THEN 0 ELSE (m \div stride) + 1
            first == IF off >= 0 THEN off ELSE stride - 1 - (m % stride)
            k_fit == IF first >= size THEN -1 ELSE (size - 1 - first) \div stride
            k_max == IF i_lo > n - 1 THEN -1 ELSE Min(k_fit, n - 1 - i_lo)
        IN  [first |-> first, count |-> k_max + 1,
             oob   |-> off < 0 \/ k_max < n - 1 - i_lo]

Strided(off, n, stride, size) ==
    LET r == Run(off, n, stride, size)
    IN  [w |-> {r.first + k * stride : k \in 0..(r.count - 1)}, oob |-> r.oob]

memset(off, n, size) == Strided(off, n, 1, size)

\* memset(&fb[row * w + x0], color, n) for row = lo .. hi
memset_rows(w, x0, lo, hi, n, size, ub) ==
    LET run   == [row \in lo..hi |->
                     Run(AddInt(MulInt(row, w, ub), x0, ub), n, 1, size)]
        most  == CHOOSE c \in {run[row].count : row \in lo..hi} :
                     \A row \in lo..hi : run[row].count <= c
        cells == {p \in (lo..hi) \X (0..(most - 1)) : p[2] < run[p[1]].count}
    IN  [w   |-> {run[p[1]].first + p[2] : p \in cells},
         oob |-> \E row \in lo..hi : run[row].oob]

\* the block after the bytes at offsets W have been set to color
Paint(pix, W, color) ==
    IF color = 0
    THEN [o \in (DOMAIN pix) \ W |-> pix[o]]
    ELSE [o \in W |-> color] @@ pix

\* ------------------------------------------------------------------------
\* Drawing primitives (rgb_gfx.c).  fb, w, h are what get_fb returns; size is
\* the size of the block fb points to.
\* ------------------------------------------------------------------------
gfx_pixel(fb, w, h, size, x, y, ub) ==
    IF fb # NULL /\ x >= 0 /\ x < w /\ y >= 0 /\ y < h
    THEN memset(AddInt(MulInt(y, w, ub), x, ub), 1, size)
    ELSE NoWrite

gfx_hline(fb, w, h, size, x, y, len, ub) ==
    IF fb = NULL \/ y < 0 \/ y >= h \/ len <= 0 THEN NoWrite
    ELSE
        LET len1 == IF x < 0 THEN AddInt(len, x, ub) ELSE len
            x1   == IF x < 0 THEN 0 ELSE x
            len2 == IF AddInt(x1, len1, ub) > w THEN SubInt(w, x1, ub) ELSE len1
        IN  IF len2 <= 0 THEN NoWrite
            ELSE memset(AddInt(MulInt(y, w, ub), x1, ub), len2, size)

gfx_vline(fb, w, h, size, x, y, len, ub) ==
    IF fb = NULL \/ x < 0 \/ x >= w \/ len <= 0 THEN NoWrite
    ELSE
        LET len1 == IF y < 0 THEN AddInt(len, y, ub) ELSE len
            y1   == IF y < 0 THEN 0 ELSE y
            len2 == IF AddInt(y1, len1, ub) > h THEN SubInt(h, y1, ub) ELSE len1
        IN  IF len2 <= 0 THEN NoWrite
            ELSE Strided(AddInt(MulInt(y1, w, ub), x, ub), len2, w, size)

gfx_rectfill(fb, w, h, size, x, y, rw, rh, ub) ==
    IF fb = NULL \/ rw <= 0 \/ rh <= 0 THEN NoWrite
    ELSE
        LET x0 == IF x < 0 THEN 0 ELSE x
            y0 == IF y < 0 THEN 0 ELSE y
            xe == AddInt(x, rw, ub)
            ye == AddInt(y, rh, ub)
            x1 == IF xe > w THEN w ELSE xe
            y1 == IF ye > h THEN h ELSE ye
            clipped_w == SubInt(x1, x0, ub)
            clipped_h == SubInt(y1, y0, ub)
        IN  IF clipped_w <= 0 \/ clipped_h <= 0 THEN NoWrite
            ELSE IF y0 >= y1 THEN NoWrite   \* for (row = y0; row < y1; row++)
            ELSE memset_rows(w, x0, y0, y1 - 1, clipped_w, size, ub)

\* arguments of the drawing calls: points, spans <<x, y, len>> and rectangles
\* <<x, y, rw, rh>> around the edges of both geometries, and the ones that
\* reach to INT_MAX from the last rows of a screen h rows high
GfxXInputs == {-5, 0, 250, INT_MAX}
GfxYInputs == {-5, 0, 149, 150, INT_MAX}
GfxColorInputs == {7}
GfxSpanInputs(h) ==
    ({-5, 0, 250} \X {-5, 0, 149, 150} \X {0, 1, 20})
    \cup {<<-5, 0, INT_MAX>>, <<0, 0, INT_MAX>>, <<250, h - 1, INT_MAX>>,
          <<INT_MAX, 0, 1>>, <<0, INT_MAX, 1>>}
GfxRectInputs(h) ==
    ({-5, 0, 250} \X {-5, 0, 149, 150} \X {0, 1, 20} \X {0, 1, 20})
    \cup {<<250, h - 5, INT_MAX - 250, INT_MAX - 200>>, <<250, h - 1, INT_MAX, 1>>,
          <<250, h - 2, INT_MAX, 20>>, <<0, 150, 20, INT_MAX>>,
          <<INT_MAX, 0, 1, 1>>, <<0, INT_MAX, 1, 1>>}

\* the effect of one drawing call whose writes are wr
Draw(op, arg, color, wr) ==
    /\ Idle
    /\ n_draws < MaxDraws
    /\ gfx_written' = wr.w
    /\ gfx_oob' = wr.oob
    /\ fb_pix' = Paint(fb_pix, gfx_written', color)
    /\ n_draws' = n_draws + 1
    /\ last_call' = [op |-> op, arg |-> arg, ret |-> 0, log |-> <<>>]
    /\ UNCHANGED <<s_screen_mode, s_graphics_framebuffer, fb_size,
                   s_gfx_width, s_gfx_height, s_gfx_scale, s_gfx_margin_x,
                   s_display_buffer, s_callbacks, s_cursor_col, s_cursor_row,
                   s_vga_palette, s_vsync_sem>>
    /\ UNCHANGED vsyncVars
    /\ UNCHANGED isrVars

rgb_gfx_pixel ==
    \E x \in GfxXInputs, y \in GfxYInputs, color \in GfxColorInputs,
       ub \in OverflowOutcomes :
        Draw("rgb_gfx_pixel", <<x, y, 1, 1, color>>, color,
             gfx_pixel(s_graphics_framebuffer, s_gfx_width, s_gfx_height,
                       fb_size, x, y, ub))

rgb_gfx_hline ==
    \E a \in GfxSpanInputs(s_gfx_height), color \in GfxColorInputs, ub \in OverflowOutcomes :
        Draw("rgb_gfx_hline", <<a[1], a[2], a[3], 1, color>>, color,
             gfx_hline(s_graphics_framebuffer, s_gfx_width, s_gfx_height,
                       fb_size, a[1], a[2], a[3], ub))

rgb_gfx_vline ==
    \E a \in GfxSpanInputs(s_gfx_height), color \in GfxColorInputs, ub \in OverflowOutcomes :
        Draw("rgb_gfx_vline", <<a[1], a[2], 1, a[3], color>>, color,
             gfx_vline(s_graphics_framebuffer, s_gfx_width, s_gfx_height,
                       fb_size, a[1], a[2], a[3], ub))

rgb_gfx_rectfill ==
    \E r \in GfxRectInputs(s_gfx_height), color \in GfxColorInputs, ub \in OverflowOutcomes :
        Draw("rgb_gfx_rectfill", <<r[1], r[2], r[3], r[4], color>>, color,
             gfx_rectfill(s_graphics_framebuffer, s_gfx_width, s_gfx_height,
                          fb_size, r[1], r[2], r[3], r[4], ub))

GfxNext ==
    \/ rgb_display_set_mode
    \/ rgb_gfx_pixel
    \/ rgb_gfx_hline
    \/ rgb_gfx_vline
    \/ rgb_gfx_rectfill

GfxSpec == Init /\ [][GfxNext]_vars

\* ------------------------------------------------------------------------
\* Refill callback: on_bounce_empty fills one bounce buffer of
\* BOUNCE_HEIGHT_PX scanlines.  It runs in interrupt context, to completion.
\* ------------------------------------------------------------------------
SCREEN_WIDTH == 1024
SCREEN_HEIGHT == 600
BOUNCE_HEIGHT_PX == 12
FONT_WIDTH == 8
FONT_HEIGHT == 16
TEXT_COLS == 128
TEXT_ROWS == 37

\* the driver hands out the frame in consecutive bounce buffers; these are
\* the ones at scanlines 0, 60 and 588
BouncePosInputs == {y * SCREEN_WIDTH : y \in {0, 60, 588}}
BounceLenBytes == SCREEN_WIDTH * BOUNCE_HEIGHT_PX * 2

\* s_frame_count is a uint32_t, held as its 32-bit pattern read in two's
\* complement (-1 is 0xFFFFFFFF); the callback has run for an arbitrary
\* number of frames since rgb_display_init
FrameCountInputs == {15, -1}

\* s_frame_count++
IncFrameCount(c) == IF c = INT_MAX THEN INT_MIN ELSE c + 1

\* (s_frame_count >> 4) & 1
cursor_blink_on(c) == (c \div 16) % 2

\* ATTR_LUT as rebuild_attr_lut fills it from the CGA palette: the colors of
\* attribute byte attr
AttrFg(attr) == s_cga_colors[(attr % 16) + 1]
AttrBg(attr) == s_cga_colors[((attr \div 16) % 16) + 1]

\* font_ram rows of the characters below 0x20, which rgb_display_init leaves
\* zeroed; the cell buffers of the model hold only such characters
font_ram(ch, glyph_y) == 0

\* contents of the text-cell buffers the console hands out: the cells that
\* differ from the blank cell, by <<row, col>>
BlankCell == [ch |-> 0, attr |-> 7]
TextCells(buf) ==
    IF buf = 1 THEN [rc \in {} |-> BlankCell]
    ELSE [rc \in {<<3, 5>>, <<3, 6>>, <<36, 127>>} |->
            [ch |-> 0, attr |-> IF rc[2] = 5 THEN 15 ELSE 31]]
TextCell(buf, row, col) ==
    IF <<row, col>> \in DOMAIN TextCells(buf)
    THEN TextCells(buf)[<<row, col>>] ELSE BlankCell

\* the byte at offset o of the framebuffer block
SrcByte(pix, o) == IF o \in DOMAIN pix THEN pix[o] ELSE 0

\* a slip of the scaling branch: every variant is replicated three times
h_scale_always_3(gfx_scale) == 3

\* if (gfx_scale == 4) four stores per source pixel, else three
h_scale(gfx_scale) == IF gfx_scale = 4 THEN 4 ELSE 3

\* Graphics path.  Every datum read from a freed block or from beyond the
\* block is undefined: the result then only records the fault.
gfx_refill(d, palette, freed, y_start, num_lines) ==
    IF freed \/ d.scale = 0
    THEN [pix |-> EmptyPix, oob |-> FALSE, fault |-> TRUE, cursor |-> {}]
    ELSE
        LET rep  == h_scale(d.scale)
            cap  == num_lines * SCREEN_WIDTH
            SrcY(line) == (y_start + line) \div d.scale
            Rendered(line) == line \in 0..(num_lines - 1) /\ SrcY(line) < d.h
            Start(line) == line * SCREEN_WIDTH + d.margin
            InSpan(p, line) == p >= Start(line) /\ p < Start(line) + rep * d.w
            fault == \E line \in 0..(num_lines - 1) :
                        Rendered(line) /\ d.w > 0
                        /\ SrcY(line) * d.w + d.w - 1 >= d.size
            oob   == \E line \in 0..(num_lines - 1) :
                        Rendered(line) /\ d.w > 0
                        /\ Start(line) + rep * d.w > cap
            \* the <<line, x>> whose color palette[src_row[x]] is not black:
            \* those over a nonzero byte of the block, and every other one
            \* when palette[0] is not black
            over  == {c \in (0..(num_lines - 1)) \X (DOMAIN d.pix) :
                        Rendered(c[1]) /\ SrcY(c[1]) = c[2] \div d.w}
            lit   == {<<c[1], c[2] % d.w>> : c \in {b \in over : palette[d.pix[b[2]]] # 0}}
                     \cup (IF palette[0] = 0 THEN {}
                           ELSE {c \in (0..(num_lines - 1)) \X (0..(d.w - 1)) :
                                    Rendered(c[1])
                                    /\ SrcByte(d.pix, SrcY(c[1]) * d.w + c[2]) = 0})
            \* the scanline whose store to pixel p comes last (a span is
            \* shorter than two scanlines)
            LastWriter(p) ==
                LET l == p \div SCREEN_WIDTH
                IN  IF Rendered(l) /\ InSpan(p, l) THEN l ELSE l - 1
            Value(p) ==
                LET l == LastWriter(p)
                    x == (p - Start(l)) \div rep
                IN  palette[SrcByte(d.pix, SrcY(l) * d.w + x)]
            dst   == {Start(c[1]) + rep * c[2] + k : c \in lit, k \in 0..(rep - 1)}
        IN  IF fault
            THEN [pix |-> EmptyPix, oob |-> oob, fault |-> TRUE, cursor |-> {}]
            ELSE [pix |-> [p \in {q \in dst : q < cap /\ Value(q) # 0} |-> Value(p)],
                  oob |-> oob, fault |-> FALSE, cursor |-> {}]

\* a slip of the cursor test: the blink phase is ignored
draw_cursor_ignores_blink(cursor_row, text_row, glyph_y, blink) ==
    cursor_row >= 0 /\ text_row = cursor_row /\ glyph_y >= FONT_HEIGHT - 2

\* int draw_cursor = (cursor_row >= 0 && text_row == cursor_row &&
\*                    glyph_y >= FONT_HEIGHT - 2 && cursor_blink_on);
draw_cursor(cursor_row, text_row, glyph_y, blink) ==
    cursor_row >= 0 /\ text_row = cursor_row /\ glyph_y >= FONT_HEIGHT - 2
    /\ blink # 0

\* Text path for a non-null cell buffer buf
text_refill(buf, cursor_col, cursor_row, frame_count, y_start, num_lines) ==
    LET blink == cursor_blink_on(frame_count)
        TextRow(line) == (y_start + line) \div FONT_HEIGHT
        GlyphY(line)  == (y_start + line) % FONT_HEIGHT
        lines == {l \in 0..(num_lines - 1) : TextRow(l) < TEXT_ROWS}
        Cell(line, col) == TextCell(buf, TextRow(line), col)
        Glyph(line, col) == font_ram(Cell(line, col).ch, GlyphY(line))
        \* the cells that get the cursor overwrite
        cursor == {c \in {l \in lines : draw_cursor(cursor_row, TextRow(l),
                                                     GlyphY(l), blink)}
                         \X ({cursor_col} \cap (0..(TEXT_COLS - 1))) : TRUE}
        \* pixel i of the cell: the glyph bit selects fg or bg, the cursor
        \* overwrite makes all eight fg
        PixelOf(line, col, i) ==
            IF <<line, col>> \in cursor THEN AttrFg(Cell(line, col).attr)
            ELSE IF (Glyph(line, col) \div (2 ^ (7 - i))) % 2 = 1
                 THEN AttrFg(Cell(line, col).attr)
                 ELSE AttrBg(Cell(line, col).attr)
        Inked(line, cell) ==
            font_ram(cell.ch, GlyphY(line)) # 0 \/ AttrBg(cell.attr) # 0
        \* the cells with a pixel that is not black: those that differ from
        \* the blank cell, and every other one when the blank cell has ink
        special == {c \in lines \X (DOMAIN TextCells(buf)) : c[2][1] = TextRow(c[1])}
        inked == {<<c[1], c[2][2]>> :
                    c \in {b \in special : Inked(b[1], TextCells(buf)[b[2]])}}
                 \cup {c \in {l \in lines : Inked(l, BlankCell)} \X (0..(TEXT_COLS - 1)) :
                        <<TextRow(c[1]), c[2]>> \notin DOMAIN TextCells(buf)}
        dst   == {<<c[1], c[2], i>> : c \in cursor \cup inked, i \in 0..(FONT_WIDTH - 1)}
        lit   == {t \in dst : PixelOf(t[1], t[2], t[3]) # 0}
    IN  [pix |-> [p \in {t[1] * SCREEN_WIDTH + t[2] * FONT_WIDTH + t[3] : t \in lit}
                    |-> PixelOf(p \div SCREEN_WIDTH,
                                (p % SCREEN_WIDTH) \div FONT_WIDTH,
                                p % FONT_WIDTH)],
         oob |-> FALSE, fault |-> FALSE, cursor |-> cursor]

\* on_bounce_empty(panel, buf, pos_px, len_bytes, user_ctx)
bounce_empty(d, palette, freed, cursor_col, cursor_row, frame_count, pos_px, len_bytes) ==
    LET y_start   == pos_px \div SCREEN_WIDTH
        num_lines == (len_bytes \div 2) \div SCREEN_WIDTH
        frame     == IF y_start = 0 THEN IncFrameCount(frame_count) ELSE frame_count
        r == IF d.mode \in GraphicsModes /\ d.fb # NULL
             THEN gfx_refill(d, palette, freed, y_start, num_lines)
             ELSE IF d.buf = NULL
             THEN [pix |-> EmptyPix, oob |-> FALSE, fault |-> FALSE, cursor |-> {}]
             ELSE text_refill(d.buf, cursor_col, cursor_row, frame, y_start, num_lines)
    IN  [frame |-> frame, pix |-> r.pix, oob |-> r.oob, fault |-> r.fault,
         cursor |-> r.cursor]

on_bounce_empty ==
    /\ \E pos_px \in BouncePosInputs :
        LET r == bounce_empty(Display, s_vga_palette, fb_freed, s_cursor_col,
                              s_cursor_row, s_frame_count, pos_px, BounceLenBytes)
            top == pos_px \div SCREEN_WIDTH = 0
        IN  /\ top => n_frames < MaxFrames
            /\ n_frames' = IF top THEN n_frames + 1 ELSE n_frames
            /\ s_frame_count' = r.frame
            /\ bounce_pos' = pos_px
            /\ bounce' = r.pix
            /\ bounce_oob' = r.oob
            /\ isr_fault' = r.fault
            /\ cursor_cells' = r.cursor
            /\ isr_pc' = sm_pc
    /\ UNCHANGED modeVars
    /\ UNCHANGED <<s_callbacks, s_cursor_col, s_cursor_row, s_vga_palette,
                   s_vsync_sem, last_call>>
    /\ UNCHANGED vsyncVars
    /\ UNCHANGED gfxVars
    /\ UNCHANGED stepVars

\* Refill of a drawn framebuffer
GfxRefillNext ==
    \/ rgb_display_set_mode
    \/ rgb_gfx_pixel
    \/ on_bounce_empty

GfxRefillSpec == Init /\ [][GfxRefillNext]_vars

\* Refill of the text screen; the callback has been running since
\* rgb_display_init
TextRefillInit ==
    InitDisplay /\ s_vsync_sem = TRUE /\ s_frame_count \in FrameCountInputs

TextRefillNext ==
    \/ rgb_display_set_mode
    \/ rgb_display_set_buffer
    \/ rgb_display_set_cursor
    \/ on_bounce_empty

TextRefillSpec == TextRefillInit /\ [][TextRefillNext]_vars

\* ------------------------------------------------------------------------
\* rgb_display_set_mode statement by statement, with the refill callback
\* running to completion between any two statements.  sm_pc names the
\* statement the foreground executes next.
\* ------------------------------------------------------------------------
\* a slip of the text branch: the block is released while the mode still is
\* a graphics variant
text_branch_frees_first == <<"free", "free_null", "text_mode", "hooks">>

\* the statements of the text branch in program order: s_screen_mode =
\* SM_TEXT; heap_caps_free(fb); fb = NULL; the three hooks
text_branch == <<"text_mode", "free", "free_null", "hooks">>

\* the statement that follows pc in the text branch
AfterText(pc) ==
    LET i == CHOOSE k \in 1..Len(text_branch) : text_branch[k] = pc
    IN  IF i = Len(text_branch) THEN "idle" ELSE text_branch[i + 1]

\* what a freshly allocated block may hold before it is cleared
MallocJunk == {EmptyPix, [o \in {0} |-> 255]}

\* variables no statement of rgb_display_set_mode writes
StepFrame ==
    /\ UNCHANGED <<s_callbacks, s_cursor_col, s_cursor_row, s_vga_palette,
                   s_vsync_sem, last_call, sm_arg>>
    /\ UNCHANGED vsyncVars
    /\ UNCHANGED gfxVars
    /\ UNCHANGED refillVars

\* the call and its dispatch (rgb_display.c:499-503, 521, 540)
sm_call ==
    /\ Idle
    /\ \E mode \in GraphicsModes \cup {SM_TEXT, BadMode} :
        /\ sm_arg' = mode
        /\ sm_pc' = IF mode = s_screen_mode THEN "idle"
                    ELSE IF mode \in GraphicsModes THEN "enter"
                    ELSE IF mode = SM_TEXT THEN text_branch[1]
                    ELSE "idle"
        /\ last_call' = [op |-> "set_mode", arg |-> <<mode>>,
                         ret |-> IF mode = s_screen_mode \/ mode # BadMode
                                 THEN 0 ELSE -1,
                         log |-> <<>>]
    /\ UNCHANGED modeVars
    /\ UNCHANGED <<s_callbacks, s_cursor_col, s_cursor_row, s_vga_palette,
                   s_vsync_sem, fb_freed>>
    /\ UNCHANGED vsyncVars
    /\ UNCHANGED gfxVars
    /\ UNCHANGED refillVars

\* the enter_graphics hook and its verdict
sm_enter ==
    /\ sm_pc = "enter"
    /\ \E enter_ret \in {0, 1} :
        sm_pc' = IF enter_graphics_hook(s_callbacks, enter_ret).abort
                 THEN "idle" ELSE "alloc"
    /\ UNCHANGED modeVars
    /\ UNCHANGED fb_freed
    /\ StepFrame

\* allocate_graphics_framebuffer: the early return for an existing block
alloc_check ==
    /\ sm_pc = "alloc"
    /\ sm_pc' = IF s_graphics_framebuffer # NULL THEN "commit_mode" ELSE "width"
    /\ UNCHANGED modeVars
    /\ UNCHANGED fb_freed
    /\ StepFrame

\* the four assignments of the geometry, one statement each
alloc_set_geometry ==
    /\ sm_pc \in {"width", "height", "scale", "margin"}
    /\ LET vga == sm_arg = SM_VGA13H
       IN  /\ s_gfx_width' = IF sm_pc # "width" THEN s_gfx_width
                             ELSE IF vga THEN GFX_VGA_WIDTH ELSE GFX_150P_WIDTH
           /\ s_gfx_height' = IF sm_pc # "height" THEN s_gfx_height
                              ELSE IF vga THEN GFX_VGA_HEIGHT ELSE GFX_150P_HEIGHT
           /\ s_gfx_scale' = IF sm_pc # "scale" THEN s_gfx_scale
                             ELSE IF vga THEN GFX_VGA_SCALE ELSE GFX_150P_SCALE
           /\ s_gfx_margin_x' = IF sm_pc # "margin" THEN s_gfx_margin_x
                                ELSE IF vga THEN GFX_VGA_MARGIN_X ELSE 0
    /\ sm_pc' = CASE sm_pc = "width"  -> "height"
                  [] sm_pc = "height" -> "scale"
                  [] sm_pc = "scale"  -> "margin"
                  [] sm_pc = "margin" -> "malloc"
    /\ UNCHANGED <<s_screen_mode, s_graphics_framebuffer, fb_size, fb_pix,
                   s_display_buffer, fb_freed>>
    /\ StepFrame

\* s_graphics_framebuffer = heap_caps_malloc(...), with the SPIRAM fallback
alloc_malloc ==
    /\ sm_pc = "malloc"
    /\ \E alloc \in AllocOutcomes, junk \in MallocJunk :
        LET p == heap_caps_malloc(alloc[1], alloc[2])
        IN  /\ s_graphics_framebuffer' = p
            /\ fb_size' = IF p = NULL THEN 0
                          ELSE IF sm_arg = SM_VGA13H THEN GFX_VGA_SIZE
                          ELSE GFX_150P_SIZE
            /\ fb_pix' = IF p = NULL THEN EmptyPix ELSE junk
            /\ sm_pc' = IF p = NULL THEN "rollback" ELSE "clear"
    /\ fb_freed' = FALSE
    /\ UNCHANGED <<s_screen_mode, s_gfx_width, s_gfx_height, s_gfx_scale,
                   s_gfx_margin_x, s_display_buffer>>
    /\ StepFrame

\* memset(s_graphics_framebuffer, 0, fb_size)
alloc_clear ==
    /\ sm_pc = "clear"
    /\ fb_pix' = EmptyPix
    /\ sm_pc' = "commit_mode"
    /\ UNCHANGED <<s_screen_mode, s_graphics_framebuffer, fb_size, s_gfx_width,
                   s_gfx_height, s_gfx_scale, s_gfx_margin_x, s_display_buffer,
                   fb_freed>>
    /\ StepFrame

\* the rollback after a failed allocation: exit_graphics, return -1
sm_rollback ==
    /\ sm_pc = "rollback"
    /\ sm_pc' = "idle"
    /\ UNCHANGED modeVars
    /\ UNCHANGED fb_freed
    /\ StepFrame

\* s_screen_mode = mode;
sm_commit_mode ==
    /\ sm_pc = "commit_mode"
    /\ s_screen_mode' = sm_arg
    /\ sm_pc' = "commit_buffer"
    /\ UNCHANGED <<s_graphics_framebuffer, fb_size, fb_pix, s_gfx_width,
                   s_gfx_height, s_gfx_scale, s_gfx_margin_x, s_display_buffer,
                   fb_freed>>
    /\ StepFrame

\* s_display_buffer = NULL;
sm_commit_buffer ==
    /\ sm_pc = "commit_buffer"
    /\ s_display_buffer' = NULL
    /\ sm_pc' = "idle"
    /\ UNCHANGED <<s_screen_mode, s_graphics_framebuffer, fb_size, fb_pix,
                   s_gfx_width, s_gfx_height, s_gfx_scale, s_gfx_margin_x,
                   fb_freed>>
    /\ StepFrame

\* s_screen_mode = SM_TEXT;
sm_text_mode ==
    /\ sm_pc = "text_mode"
    /\ s_screen_mode' = SM_TEXT
    /\ sm_pc' = AfterText("text_mode")
    /\ UNCHANGED <<s_graphics_framebuffer, fb_size, fb_pix, s_gfx_width,
                   s_gfx_height, s_gfx_scale, s_gfx_margin_x, s_display_buffer,
                   fb_freed>>
    /\ StepFrame

\* free_graphics_framebuffer: heap_caps_free(s_graphics_framebuffer) when the
\* pointer is non-null; the pointer dangles until the next statement
free_call ==
    /\ sm_pc = "free"
    /\ fb_freed' = (s_graphics_framebuffer # NULL)
    /\ sm_pc' = IF s_graphics_framebuffer # NULL THEN AfterText("free")
                ELSE AfterText("free_null")
    /\ UNCHANGED modeVars
    /\ StepFrame

\* s_graphics_framebuffer = NULL;
free_null ==
    /\ sm_pc = "free_null"
    /\ s_graphics_framebuffer' = NULL
    /\ fb_size' = 0
    /\ fb_pix' = EmptyPix
    /\ fb_freed' = FALSE
    /\ sm_pc' = AfterText("free_null")
    /\ UNCHANGED <<s_screen_mode, s_gfx_width, s_gfx_height, s_gfx_scale,
                   s_gfx_margin_x, s_display_buffer>>
    /\ StepFrame

\* exit_graphics, s_display_buffer = get_text_buffer(), flush_input
sm_text_hooks ==
    /\ sm_pc = "hooks"
    /\ \E text_buf \in {NULL} \cup TextBufs :
        s_display_buffer' = IF HasHook(s_callbacks, "get_text_buffer")
                            THEN text_buf ELSE s_display_buffer
    /\ sm_pc' = AfterText("hooks")
    /\ UNCHANGED <<s_screen_mode, s_graphics_framebuffer, fb_size, fb_pix,
                   s_gfx_width, s_gfx_height, s_gfx_scale, s_gfx_margin_x,
                   fb_freed>>
    /\ StepFrame

\* ------------------------------------------------------------------------
\* Mode switches under a callback table installed once and never replaced
\* ------------------------------------------------------------------------
HookInit ==
    \E cb \in rgb_display_callbacks_t \cup {NoCallbacks} : InitWithCallbacks(cb)

HookNext ==
    \/ rgb_display_set_mode
    \/ rgb_display_set_buffer

HookSpec == HookInit /\ [][HookNext]_vars

\* a table with every hook installed
AllCallbacks ==
    [table |-> TRUE, enter_graphics |-> TRUE, exit_graphics |-> TRUE,
     get_text_buffer |-> TRUE, flush_input |-> TRUE]

\* the callback table is installed once, before the first mode switch
IsrInit == \E cb \in {NoCallbacks, AllCallbacks} : InitWithCallbacks(cb)

IsrNext ==
    \/ sm_call
    \/ sm_enter
    \/ alloc_check
    \/ alloc_set_geometry
    \/ alloc_malloc
    \/ alloc_clear
    \/ sm_rollback
    \/ sm_commit_mode
    \/ sm_commit_buffer
    \/ sm_text_mode
    \/ free_call
    \/ free_null
    \/ sm_text_hooks
    \/ on_bounce_empty

IsrSpec == IsrInit /\ [][IsrNext]_vars

\* ========================================================================
\* Properties of the mode state machine (checked under Spec)
\* ========================================================================
IsSetMode(c) == c.op = "set_mode"
Count(log, e) == Cardinality({i \in 1..Len(log) : log[i] = e})

\* C1: on return from every rgb_display_set_mode call the framebuffer pointer
\* is non-null exactly when the current mode is a graphics variant.
C1_FramebufferIffGraphics ==
    (s_graphics_framebuffer # NULL) <=> (s_screen_mode \in GraphicsModes)

\* a graphics session ended by set_mode(SM_TEXT): the block was freed
C1_Witness ==
    /\ IsSetMode(last_call) /\ last_call.arg = <<SM_TEXT>>
    /\ "free" \in LogSet(last_call.log)
    /\ s_screen_mode = SM_TEXT /\ s_graphics_framebuffer = NULL

\* C2 as stated: the text-buffer reference is non-null only while the mode
\* is Text, in every state reachable by set_buffer and set_mode calls.
C2_TextBufferOnlyInText ==
    s_display_buffer # NULL => s_screen_mode = SM_TEXT

\* C2 amended: while the mode is (or becomes) a graphics variant, only a
\* rgb_display_set_buffer call makes or leaves the text-buffer reference
\* non-null by writing it; every set_mode call that changes the mode to a
\* graphics variant leaves it null, and no other call changes it.
C2_OnlySetBufferLinksInGraphics ==
    [][ (s_screen_mode' \in GraphicsModes /\ s_display_buffer' # NULL)
        => \/ last_call'.op = "set_buffer"
           \/ (s_screen_mode' = s_screen_mode /\ s_display_buffer' = s_display_buffer) ]_vars

\* a successful switch into a graphics variant has detached the text buffer
C2_Witness ==
    /\ IsSetMode(last_call) /\ last_call.ret = 0
    /\ "malloc" \in LogSet(last_call.log)
    /\ s_screen_mode \in GraphicsModes /\ s_display_buffer = NULL

\* C3 as stated: whenever the mode is Text, rgb_display_get_fb_width() and
\* rgb_display_get_fb_height() both return 0.
C3_ZeroDimensionsInText ==
    s_screen_mode = SM_TEXT => (s_gfx_width = 0 /\ s_gfx_height = 0)

\* C4 as stated: in a graphics variant the framebuffer has that variant's
\* geometry, and a mode change always frees the previous framebuffer and,
\* when the new mode is a graphics variant, allocates a new one.
C4_GeometryAndReallocation ==
    [][ /\ s_screen_mode' = SM_VGA13H =>
              <<s_gfx_width', s_gfx_height', s_gfx_scale', s_gfx_margin_x'>> = <<320, 200, 3, 32>>
        /\ s_screen_mode' = SM_150P =>
              <<s_gfx_width', s_gfx_height', s_gfx_scale', s_gfx_margin_x'>> = <<256, 150, 4, 0>>
        /\ s_screen_mode' # s_screen_mode =>
              /\ s_graphics_framebuffer # NULL => "free" \in LogSet(last_call'.log)
              /\ s_screen_mode' \in GraphicsModes => "malloc" \in LogSet(last_call'.log) ]_vars

\* C5: a set_mode call that requests a graphics variant in Text mode and
\* whose allocation fails returns failure, leaves the mode Text, the
\* text-buffer reference as it was and the framebuffer pointer null, and has
\* invoked exit_graphics (when present) exactly once, after enter_graphics.
C5_AllocationFailureRollsBack ==
    [][ ( /\ IsSetMode(last_call')
          /\ s_screen_mode = SM_TEXT
          /\ last_call'.arg[1] \in GraphicsModes
          /\ "malloc_fail" \in LogSet(last_call'.log) )
        => /\ last_call'.ret = -1
           /\ s_screen_mode' = SM_TEXT
           /\ s_display_buffer' = s_display_buffer
           /\ s_graphics_framebuffer' = NULL
           /\ HasHook(s_callbacks, "exit_graphics") =>
                 /\ Count(last_call'.log, "exit_graphics") = 1
                 /\ last_call'.log[Len(last_call'.log)] = "exit_graphics"
           /\ ~HasHook(s_callbacks, "exit_graphics") =>
                 Count(last_call'.log, "exit_graphics") = 0 ]_vars

\* a failed Text -> graphics attempt with both hooks and a linked text buffer
C5_Witness ==
    /\ IsSetMode(last_call) /\ last_call.ret = -1
    /\ last_call.log = <<"enter_graphics", "malloc_fail", "exit_graphics">>
    /\ s_screen_mode = SM_TEXT /\ s_display_buffer # NULL

\* C6: a set_mode call whose enter_graphics hook rejects returns failure
\* before any allocation, does not invoke exit_graphics, and leaves the mode,
\* the framebuffer pointer, the dimensions and the text-buffer reference
\* unchanged.
C6_RejectionLeavesStateUnchanged ==
    [][ ( /\ IsSetMode(last_call')
          /\ "enter_graphics_rejected" \in LogSet(last_call'.log) )
        => /\ last_call'.ret = -1
           /\ last_call'.log = <<"enter_graphics_rejected">>
           /\ UNCHANGED <<s_screen_mode, s_graphics_framebuffer, s_gfx_width,
                          s_gfx_height, s_gfx_scale, s_gfx_margin_x,
                          s_display_buffer>> ]_vars

\* a rejected request made while the other graphics variant is active
C6_Witness ==
    /\ IsSetMode(last_call) /\ last_call.ret = -1
    /\ last_call.log = <<"enter_graphics_rejected">>
    /\ last_call.arg = <<SM_150P>> /\ s_screen_mode = SM_VGA13H

\* C7: set_mode(m) made while the current mode is m returns success, invokes
\* no hook, allocates and frees nothing, and leaves the mode, framebuffer
\* pointer, dimensions, text-buffer reference, palette and cursor unchanged.
C7_SameModeIsNoOp ==
    [][ ( /\ IsSetMode(last_call')
          /\ last_call'.arg = <<s_screen_mode>> )
        => /\ last_call'.ret = 0
           /\ last_call'.log = <<>>
           /\ UNCHANGED <<s_screen_mode, s_graphics_framebuffer, fb_pix,
                          s_gfx_width, s_gfx_height, s_gfx_scale,
                          s_gfx_margin_x, s_display_buffer, s_vga_palette,
                          s_cursor_col, s_cursor_row>> ]_vars

\* set_mode(m) in graphics mode m with a text buffer linked, a moved cursor
\* and a changed palette entry
C7_Witness ==
    /\ IsSetMode(last_call) /\ last_call.arg = <<s_screen_mode>>
    /\ s_screen_mode \in GraphicsModes
    /\ s_display_buffer # NULL /\ s_cursor_col = 5 /\ s_vga_palette[5] = 4660

\* the hooks of the table cb that the text branch invokes, in call order
TextBranchHooks(cb) ==
    (IF HasHook(cb, "exit_graphics") THEN <<"exit_graphics">> ELSE <<>>)
    \o (IF HasHook(cb, "get_text_buffer") THEN <<"get_text_buffer">> ELSE <<>>)
    \o (IF HasHook(cb, "flush_input") THEN <<"flush_input">> ELSE <<>>)

C8_ReturnsOnlyAfterFreshVsync ==
    (last_call.op = "wait_vsync" /\ last_call.log = <<"signalled">>)
        => vsync_since_call

\* C9 (checked under FairVsyncSpec): every wait_vsync call returns; it
\* returns at once without arming the flag when the mode is Text or the
\* semaphore does not exist, and a blocked call returns even if no vertical
\* blank is ever delivered.
C9_WaitVsyncAlwaysReturns ==
    /\ [][ ( /\ last_call'.op = "wait_vsync"
             /\ wait_pc = "idle"
             /\ (s_screen_mode \notin GraphicsModes \/ ~s_vsync_sem) )
           => /\ wait_pc' = "idle"
              /\ s_waiting_for_vsync' = s_waiting_for_vsync ]_vars
    /\ (wait_pc = "blocked") ~> (wait_pc = "idle")

\* a call that blocked, saw no vertical blank and returned on its timeout
C9_Witness ==
    /\ last_call.op = "wait_vsync" /\ last_call.log = <<"timeout">>
    /\ wait_pc = "idle" /\ ~vsync_since_call
    /\ s_screen_mode \in GraphicsModes

\* ========================================================================
\* Properties of the refill callback
\* ========================================================================
\* the step is one invocation of the callback (which is no foreground call)
IsRefill == last_call' = last_call /\ on_bounce_empty

\* the pixel at index p of a sparse pixel map
PixelAt(pix, p) == IF p \in DOMAIN pix THEN pix[p] ELSE 0

\* what C11 prescribes for pixel p of the bounce buffer filled at pos_px from
\* the current framebuffer, geometry and palette
C11_Expected(pos_px, p) ==
    LET y     == pos_px \div SCREEN_WIDTH + p \div SCREEN_WIDTH
        col   == p % SCREEN_WIDTH
        src_y == y \div s_gfx_scale
    IN  IF src_y >= s_gfx_height THEN 0
        ELSE IF col < s_gfx_margin_x THEN 0
        ELSE IF col >= s_gfx_margin_x + s_gfx_scale * s_gfx_width THEN 0
        ELSE s_vga_palette[SrcByte(fb_pix, src_y * s_gfx_width
                                           + (col - s_gfx_margin_x) \div s_gfx_scale)]

\* the pixels of that bounce buffer C11 prescribes a color other than black
\* for: the images of the nonzero framebuffer bytes, and of every other byte
\* when palette[0] is not black
C11_ExpectedLit(pos_px) ==
    LET lines == 0..(BOUNCE_HEIGHT_PX - 1)
        y(line) == pos_px \div SCREEN_WIDTH + line
        cand == IF s_vga_palette[0] = 0
                THEN {line * SCREEN_WIDTH + s_gfx_margin_x
                        + s_gfx_scale * (o % s_gfx_width) + k :
                        line \in lines, o \in DOMAIN fb_pix, k \in 0..(s_gfx_scale - 1)}
                ELSE 0..(BOUNCE_HEIGHT_PX * SCREEN_WIDTH - 1)
    IN  {p \in cand : p < BOUNCE_HEIGHT_PX * SCREEN_WIDTH /\ C11_Expected(pos_px, p) # 0}

\* C11 (checked under GfxRefillSpec): in a graphics mode with a framebuffer
\* present one refill leaves every scanline it covers black where the source
\* row is past the framebuffer, and otherwise black in the margins and
\* palette[framebuffer[src_y][x]] at margin + scale*x + k for k in [0, scale);
\* no write falls outside the bounce buffer.
C11_RefillScalesFramebuffer ==
    [][ ( /\ IsRefill
          /\ s_screen_mode \in GraphicsModes
          /\ s_graphics_framebuffer # NULL )
        => /\ ~bounce_oob'
           /\ \A p \in DOMAIN bounce' : bounce'[p] = C11_Expected(bounce_pos', p)
           /\ C11_ExpectedLit(bounce_pos') \subseteq DOMAIN bounce' ]_vars

\* the pixel drawn at (250, 0) of the 320x200 framebuffer shows three wide
\* on scanlines 0..2 of the first bounce buffer, behind the 32-pixel margin
C11_Witness ==
    /\ s_screen_mode = SM_VGA13H /\ s_gfx_scale = 3 /\ bounce_pos = 0
    /\ DOMAIN fb_pix = {250}
    /\ DOMAIN bounce = {line * SCREEN_WIDTH + 32 + 750 + k :
                            line \in 0..2, k \in 0..2}
    /\ bounce[782] = s_vga_palette[7]

\* C13 (checked under IsrSpec): with the refill callback run to completion
\* between any two statements of rgb_display_set_mode, whenever the callback
\* takes the graphics path the framebuffer pointer it reads refers to a live
\* block whose size is the width x height it reads, and every source index
\* it accesses is inside that block.
C13_RefillNeverFaults ==
    [][ ( /\ IsRefill
          /\ s_screen_mode \in GraphicsModes
          /\ s_graphics_framebuffer # NULL )
        => /\ ~fb_freed
           /\ fb_size = s_gfx_width * s_gfx_height
           /\ ~isr_fault' ]_vars

\* the callback ran on the graphics path between the two commit statements
\* of a switch to 150P made in VGA13H
C13_Witness ==
    /\ sm_pc = "commit_buffer" /\ isr_pc = "commit_buffer" /\ sm_arg = SM_150P
    /\ s_screen_mode = SM_150P /\ s_gfx_width = GFX_VGA_WIDTH
    /\ bounce_pos = 588 * SCREEN_WIDTH /\ ~isr_fault

\* the enter_graphics hook was invoked by the call (accepted or rejected)
EnterInvoked(c) ==
    IsSetMode(c) /\ LogSet(c.log) \cap {"enter_graphics", "enter_graphics_rejected"} # {}

\* the exit_graphics hook was invoked by the call
ExitInvoked(c) == IsSetMode(c) /\ "exit_graphics" \in LogSet(c.log)

\* C15 as stated (checked under HookSpec): with a fixed callback table the
\* enter_graphics and exit_graphics hooks are balanced over any sequence of
\* set_mode calls: enter_graphics is never invoked while an accepted
\* enter_graphics is still unmatched, that is never while the mode already
\* is a graphics variant, and exit_graphics is invoked only when an accepted
\* enter_graphics is unmatched: one made by the same call, or the one that
\* put the display into the graphics mode it is in.
C15_EnterExitBalanced ==
    [][ /\ EnterInvoked(last_call') => s_screen_mode \notin GraphicsModes
        /\ ( ExitInvoked(last_call') /\ HasHook(s_callbacks, "enter_graphics") )
           => \/ "enter_graphics" \in LogSet(last_call'.log)
              \/ s_screen_mode \in GraphicsModes ]_vars

\* C14 (checked under TextRefillSpec): the frame counter is advanced exactly
\* once by each refill whose first scanline is row 0 and by nothing else; in
\* text mode with a non-null text buffer the refill overwrites a cell with
\* its solid foreground color exactly when bit 4 of the frame counter is 1,
\* the cursor row is >= 0, the cell is at the cursor row and column and the
\* scanline within the glyph is 14 or 15.
C14_FrameCounterAndCursor ==
    [][ /\ s_frame_count' =
              IF IsRefill /\ bounce_pos' \div SCREEN_WIDTH = 0
              THEN IncFrameCount(s_frame_count) ELSE s_frame_count
        /\ ( /\ IsRefill
             /\ ~(s_screen_mode \in GraphicsModes /\ s_graphics_framebuffer # NULL)
             /\ s_display_buffer # NULL )
           => LET y0 == bounce_pos' \div SCREEN_WIDTH
                  on  == {line \in 0..(BOUNCE_HEIGHT_PX - 1) :
                            /\ (s_frame_count' \div 16) % 2 = 1
                            /\ s_cursor_row >= 0
                            /\ (y0 + line) \div FONT_HEIGHT = s_cursor_row
                            /\ (y0 + line) \div FONT_HEIGHT < TEXT_ROWS
                            /\ (y0 + line) % FONT_HEIGHT \in {14, 15}}
                  cur == {c \in on \X (0..(TEXT_COLS - 1)) : c[2] = s_cursor_col}
              IN  /\ cursor_cells' = cur
                  /\ \A c \in cur : \A i \in 0..(FONT_WIDTH - 1) :
                        PixelAt(bounce', c[1] * SCREEN_WIDTH + c[2] * FONT_WIDTH + i)
                          = AttrFg(TextCell(s_display_buffer,
                                            (y0 + c[1]) \div FONT_HEIGHT, c[2]).attr) ]_vars

\* the cursor at column 5 of row 3 drawn on scanlines 62 and 63 in a frame
\* whose counter has bit 4 set
C14_Witness ==
    /\ s_screen_mode = SM_TEXT /\ s_display_buffer = 2
    /\ bounce_pos = 60 * SCREEN_WIDTH
    /\ (s_frame_count \div 16) % 2 = 1
    /\ cursor_cells = {<<2, 5>>, <<3, 5>>}
    /\ PixelAt(bounce, 2 * SCREEN_WIDTH + 5 * FONT_WIDTH) = 65535

\* ========================================================================
\* Properties of the drawing primitives (checked under GfxSpec)
\* ========================================================================
GfxOps == {"rgb_gfx_pixel", "rgb_gfx_hline", "rgb_gfx_vline", "rgb_gfx_rectfill"}

\* the coordinates x .. x+n-1 that lie in [0, limit)
ClipRange(x, n, limit) ==
    IF n <= 0 \/ x >= limit THEN {}
    ELSE IF x < 0 THEN 0..Min(x + n - 1, limit - 1)
    ELSE x..(IF n > limit - x THEN limit - 1 ELSE x + n - 1)

\* offsets of the pixels of the requested shape inside the framebuffer
RequestedInside(arg) ==
    IF s_graphics_framebuffer = NULL THEN {}
    ELSE {yy * s_gfx_width + xx :
            xx \in ClipRange(arg[1], arg[3], s_gfx_width),
            yy \in ClipRange(arg[2], arg[4], s_gfx_height)}

\* C10 as stated: for all int arguments a primitive writes the color to
\* exactly the pixels of the requested point, span or rectangle that lie
\* inside the framebuffer, leaves every other pixel unchanged and never
\* writes outside the framebuffer.
C10_PrimitivesClipExactly ==
    [][ last_call'.op \in GfxOps
        => /\ ~gfx_oob'
           /\ gfx_written' = RequestedInside(last_call'.arg)
           /\ fb_pix' = Paint(fb_pix, RequestedInside(last_call'.arg),
                              last_call'.arg[5]) ]_vars

====
